---- MODULE Spec2Model ----
(***************************************************************************)
(* Asynchronous job subsystem of the toolkit: the force_queue_task         *)
(* decorator (routes/v1/image/convert/image_to_video.py), the image_to_   *)
(* video task, upload_file (services/cloud_storage.py) and the status      *)
(* query get_job_status (routes/v1/toolkit/job_status.py).                 *)
(*                                                                         *)
(* The worker loop that consumes current_app.task_queue and the record     *)
(* store log_job_status live in app.py / app_utils.py, outside the files   *)
(* modelled here; they follow sections 4.1-4.3 of the design               *)
(* specification (atomic overwrite of one record per job; dequeue, write   *)
(* running, invoke task, write done/error, notify, loop).                  *)
(***************************************************************************)
EXTENDS Integers, Sequences, FiniteSets, TLC

(* ------------------------------ bounds -------------------------------- *)
MaxJobs == 2
MaxTime == 2
MaxDepth == 3

Intakes == {"i1", "i2"}
Workers == {"w1", "w2"}
JobIds == 1 .. MaxJobs
ProbeIds == 1 .. (MaxJobs + 1)

(* --------------------------- JSON encoding ---------------------------- *)
\* A dictionary is kept as one record with every key the model reads; a key
\* that is not in the dictionary holds the marker of its type.  The value of
\* the "response" key is the next element of the chain (resp = "dict"), or
\* null / a string / not a key at all, which ends the chain.  A chain of
\* length 0 is JSON null; a value that is a plain string is one element of
\* kind "str" holding the text.
NoKey == "<absent>"
NoSeq == << >>
NoInt == -1
Null == << >>

EmptyDict ==
    [ kind |-> "dict", text |-> NoKey,
      filename |-> NoSeq, download_url |-> NoSeq, resp |-> "absent",
      code |-> NoInt, message |-> NoKey, error |-> NoKey,
      run_time |-> NoInt, queue_time |-> NoInt, total_time |-> NoInt ]

NoRecord ==
    [ job_status |-> NoKey, job_id |-> NoInt, process_id |-> NoInt, response |-> Null ]

(* ------------------------- names and locators ------------------------- *)
BaseUrl == "http://localhost:8080"
Endpoint == "/v1/image/convert/video"

\* os.path.basename(output_filename), split by os.path.splitext into (name, ext)
OutputFile(job_id) == << "job" \o ToString(job_id), ".mp4" >>

\* f"{base_url}/v1/storage/download/{filename}"
DownloadUrl(filename) == << BaseUrl, "/v1/storage/download", "/" >> \o filename

\* datetime.now().strftime("%Y%m%d_%H%M%S"): the clock cut to whole seconds
MsPerSecond == 1000
Stamp(t) == ToString(t \div MsPerSecond)

\* save_file_locally: f"{name}_{timestamp}{ext}" under the storage root
SavedFile(file, t) == << file[1], "_", Stamp(t), file[2] >>

\* upload_file: saves locally and returns the download URL of the saved file
UploadFile(file, t) == DownloadUrl(SavedFile(file, t))

(* --------------------------- storage locator -------------------------- *)
DockerStorage == "/var/www/html/storage/app"
AppStorage == "/app/storage"

\* os.getenv('SAVE_LOCATION') is None (NoKey), empty or a directory; the
\* Docker mount exists or not, and can be writable only when it exists
Envs ==
    { e \in [ save_location : { NoKey, "", "/data" },
              docker_exists : BOOLEAN, docker_writable : BOOLEAN ] :
        e.docker_writable => e.docker_exists }

\* SAVE_LOCATION unset, the Docker volume mounted
DeployedEnv == [ save_location |-> NoKey, docker_exists |-> TRUE, docker_writable |-> TRUE ]

NoCall == [ op |-> NoKey, root |-> NoKey, code |-> NoInt ]

\* save_file_locally, lines 123-142, local_storage_dir is None
SaveRoot(e) ==
    IF e.save_location # NoKey /\ e.save_location # ""
    THEN e.save_location
    ELSE IF e.docker_exists /\ e.docker_writable THEN DockerStorage ELSE AppStorage

\* faulty variant: SAVE_LOCATION is used whenever it is set, also when empty
DownloadRootIfSet(e) ==
    IF e.save_location # NoKey
    THEN e.save_location
    ELSE IF e.docker_exists /\ e.docker_writable THEN DockerStorage ELSE AppStorage

\* download_file, lines 45-55
DownloadRoot(e) ==
    IF e.save_location # NoKey /\ e.save_location # ""
    THEN e.save_location
    ELSE IF e.docker_exists /\ e.docker_writable THEN DockerStorage ELSE AppStorage

\* list_files, lines 110-120
ListRoot(e) ==
    IF e.save_location # NoKey /\ e.save_location # ""
    THEN e.save_location
    ELSE IF e.docker_exists /\ e.docker_writable THEN DockerStorage ELSE AppStorage

\* os.path.join(storage_dir, filename)
Path(dir, name) == [ dir |-> dir, name |-> name ]

\* save_file_locally: the destination path, and the disk after shutil.copy2
\* (a file already at the destination is overwritten)
SaveFileLocally(e, dsk, file, t) ==
    LET destination_path == Path(SaveRoot(e), SavedFile(file, t))
    IN  [ path |-> destination_path, disk |-> dsk \cup { destination_path } ]

\* urllib.parse.unquote on the tokens of a file name
Unquote(filename) ==
    [ k \in DOMAIN filename |-> IF filename[k] = "%20" THEN " " ELSE filename[k] ]

\* download_file(filename): 404 unless the file is under the resolved root
DownloadFile(e, dsk, filename) ==
    LET file_path == Path(DownloadRoot(e), Unquote(filename))
    IN  IF file_path \notin dsk
        THEN [ code |-> 404, error |-> "File not found", root |-> file_path.dir ]
        ELSE [ code |-> 200, error |-> NoKey, root |-> file_path.dir ]

\* list_files: the files of the resolved root
ListFiles(e, dsk) ==
    [ storage_path |-> ListRoot(e),
      files |-> { f.name : f \in { g \in dsk : g.dir = ListRoot(e) } } ]

(* ------------------------------ the task ------------------------------ *)
\* What can happen inside f: both steps succeed, process_image_to_video
\* raises, upload_file raises, or the failure escapes f (raised outside its
\* try block).
Outcomes == { "ok", "process_fail", "store_fail", "raise" }

FailureText(o) ==
    CASE o = "process_fail" -> "conversion failed"
      [] o = "store_fail" -> "cannot create storage directory"
      [] o = "raise" -> "task raised"
      [] OTHER -> NoKey

\* image_to_video(job_id, data): (response_data, endpoint, 200) on success,
\* (str(e), endpoint, 500) when one of its two steps raised.
ImageToVideo(job_id, o, t) ==
    IF o = "ok"
    THEN [ raised |-> FALSE, code |-> 200, text |-> NoKey,
           body |-> << [ EmptyDict EXCEPT
                           !.download_url = UploadFile(OutputFile(job_id), t),
                           !.filename = OutputFile(job_id),
                           !.message = "Video conversion completed successfully" ] >> ]
    ELSE [ raised |-> (o = "raise"), code |-> 500, text |-> FailureText(o), body |-> Null ]

\* faulty variant: the record of a finished job is written without its response
ResponseDataNone(res, run_time) == Null

\* response_data of task_wrapper (lines 74-88): run_time is measured from the
\* start_time taken at intake, queue_time is the literal 0.
ResponseData(res, run_time) ==
    << [ EmptyDict EXCEPT
           !.code = res.code,
           !.resp = IF res.code = 200 THEN "dict" ELSE "null",
           !.message = IF res.code = 200 THEN "success" ELSE res.text,
           !.run_time = run_time,
           !.queue_time = 0,
           !.total_time = run_time ] >>
    \o (IF res.code = 200 THEN res.body ELSE Null)

\* the record passed to log_job_status
JobRecord(status, job_id, pid, response) ==
    [ job_status |-> status, job_id |-> job_id, process_id |-> pid, response |-> response ]

(* --------------------------- status query ----------------------------- *)
Exists(st, id) == id \in DOMAIN st /\ st[id] # NoRecord

\* bool(response): None and {} are false
Truthy(response) == response # Null /\ response[1] # EmptyDict

\* faulty variant: the nested response is unwrapped once, not repeatedly
UnwrapOnce(chain, i) == IF chain[i].resp = "dict" THEN i + 1 ELSE i

\* the while loop of lines 78-82: the index of actual_response in the chain
RECURSIVE Unwrap(_, _)
Unwrap(chain, i) ==
    IF chain[i].resp = "absent" THEN i
    ELSE IF chain[i].resp = "dict" THEN Unwrap(chain, i + 1)
    ELSE i

Document(code, rec) ==
    [ code |-> code, error |-> NoKey, job_id |-> rec.job_id, job_status |-> rec.job_status,
      process_id |-> rec.process_id, response |-> rec.response,
      filename |-> NoSeq, download_url |-> NoSeq ]

NotFound(id) == [ Document(404, NoRecord) EXCEPT !.error = "Job not found", !.job_id = id ]

\* lines 60-101 on a record that was read
Enhance(rec) ==
    IF rec.job_status = "done" /\ Truthy(rec.response)
    THEN LET response_data == rec.response
             k == Unwrap(response_data, 1)
         IN  IF response_data[1].filename # NoSeq
             THEN [ Document(200, rec) EXCEPT
                      !.filename = response_data[1].filename,
                      !.download_url = DownloadUrl(response_data[1].filename) ]
             ELSE IF response_data[k].filename # NoSeq
             THEN [ Document(200, rec) EXCEPT
                      !.filename = response_data[k].filename,
                      !.download_url = DownloadUrl(response_data[k].filename),
                      !.response = [ response_data EXCEPT
                                       ![k].download_url = DownloadUrl(response_data[k].filename) ] ]
             ELSE Document(200, rec)
    ELSE Document(200, rec)

\* faulty variant: the record is read without the os.path.exists test
GetJobStatusNoCheck(st, id) == Enhance(IF id \in DOMAIN st THEN st[id] ELSE NoRecord)

\* get_job_status(job_id, data)
GetJobStatus(st, id) ==
    IF ~Exists(st, id) THEN NotFound(id) ELSE Enhance(st[id])


VARIABLES
    now,        \* time.time(), in milliseconds (round(x, 3) keeps milliseconds)
    pool,       \* the worker loops started at startup
    nextId,     \* source of uuid.uuid4()
    store,      \* LOCAL_STORAGE_PATH/jobs/<job_id>.json, per job id
    queue,      \* current_app.task_queue
    ipc, ient,  \* per intake request: position in wrapper, and the entry it builds
    wpc, went,  \* per worker: position in the loop / task_wrapper, and the entry it holds
    wtime,      \* per worker: queue_time and start of execution, as the loop measured them
    wres,       \* per worker: what f returned and the run times measured when it did
    accepted,   \* job ids handed back to callers with a 202
    \* history (not program state), read by the properties only
    submitted,  \* jobs in the order their intake began, with the intake path
    completed,  \* jobs in the order they first got a terminal record
    execs,      \* per job: how many times f was entered
    outcome,    \* per job: what happened inside f
    waited,     \* per job: time between intake and dequeue
    ran,        \* per job: time between the call of the task and its end
    executor,   \* per job: the worker that dequeued it
    lastPoll,   \* the last status query and its answer
    locator,    \* per job: the URL upload_file returned
    rejected,   \* job ids whose queued record could not be written
    \* storage
    env,        \* SAVE_LOCATION and the state of the Docker volume mount
    disk,       \* the files saved under the storage roots
    saved,      \* history: the destination paths save_file_locally returned, in order
    lastCall,   \* the last storage operation in the current environment and the root it resolved
    \* status query checked on its own
    probe, answer

vars == << now, pool, nextId, store, queue, ipc, ient, wpc, went, wtime, wres, accepted,
           submitted, completed, execs, outcome, waited, ran, executor, lastPoll, locator,
           rejected, env, disk, saved, lastCall, probe, answer >>

(* ------------------------------ helpers ------------------------------- *)
NoEntry == [ job_id |-> NoInt, start_time |-> NoInt, pid |-> NoInt ]
NoResult == [ res |-> ImageToVideo(NoInt, "raise", NoInt), run_time |-> NoInt, loop_time |-> NoInt ]
NoTime == [ queue_time |-> NoInt, run_start |-> NoInt ]
NoPoll == [ id |-> NoInt, existed |-> FALSE, code |-> NoInt, error |-> NoKey ]

Statuses == { "queued", "running", "done", "error" }
Terminal == { "done", "error" }

\* identity of a worker loop
WorkerPid == [ w \in Workers |-> IF w = "w1" THEN 2 ELSE 3 ]

\* os.getpid() in a request handler
IntakePid(i) == 1

\* faulty variant: the job id is not generated anew for each request
StaleId(n) == 1

\* str(uuid.uuid4())
FreshId(n) == n

\* faulty variant: a LIFO queue
PutFront(q, entry) == << entry >> \o q

\* task_queue.put(entry)
Put(q, entry) == Append(q, entry)

\* log_job_status(job_id, data): the whole record is replaced
LogJobStatus(st, job_id, data) == [ st EXCEPT ![job_id] = data ]

\* history: the order in which jobs first reach a terminal record
Finish(st, job_id) ==
    IF st[job_id].job_status \in Terminal THEN completed ELSE Append(completed, job_id)

(* ------------------------------- intake ------------------------------- *)
\* faulty variant: the entry is built but the queued record is not written
IntakeAcceptNoWrite(i) ==
    /\ ipc[i] = "idle"
    /\ nextId <= MaxJobs
    /\ LET job_id == FreshId(nextId)
           pid == IntakePid(i)
       IN  /\ ient' = [ ient EXCEPT ![i] = [ job_id |-> job_id, start_time |-> now, pid |-> pid ] ]
           /\ submitted' = Append(submitted, [ job_id |-> job_id, intake |-> i ])
    /\ nextId' = nextId + 1
    /\ ipc' = [ ipc EXCEPT ![i] = "logged" ]
    /\ UNCHANGED << now, pool, store, queue, wpc, went, wtime, wres, accepted, completed,
                    execs, outcome, waited, ran, lastPoll, probe, answer, executor,
                    locator, rejected, env, disk, saved, lastCall >>

\* wrapper, lines 35-55: new job id, capture pid and start_time, write queued
IntakeAccept(i) ==
    /\ ipc[i] = "idle"
    /\ nextId <= MaxJobs
    /\ LET job_id == FreshId(nextId)
           pid == IntakePid(i)
       IN  /\ ient' = [ ient EXCEPT ![i] = [ job_id |-> job_id, start_time |-> now, pid |-> pid ] ]
           /\ store' = LogJobStatus(store, job_id, JobRecord("queued", job_id, pid, Null))
           /\ submitted' = Append(submitted, [ job_id |-> job_id, intake |-> i ])
    /\ nextId' = nextId + 1
    /\ ipc' = [ ipc EXCEPT ![i] = "logged" ]
    /\ UNCHANGED << now, pool, queue, wpc, went, wtime, wres, accepted, completed, execs,
                    outcome, waited, ran, lastPoll, probe, answer, executor,
                    locator, rejected, env, disk, saved, lastCall >>

\* wrapper, lines 35-55 when the store cannot be written: log_job_status
\* raises out of the wrapper, which has no handler around it, so the request
\* ends before the put (line 113) and the return (line 115); the job id
\* drawn at line 35 is spent
IntakeReject(i) ==
    /\ ipc[i] = "idle"
    /\ nextId <= MaxJobs
    /\ rejected' = rejected \cup { FreshId(nextId) }
    /\ nextId' = nextId + 1
    /\ UNCHANGED << now, pool, store, queue, ipc, ient, wpc, went, wtime, wres, accepted,
                    submitted, completed, execs, outcome, waited, ran, lastPoll, probe,
                    answer, executor, locator, env, disk, saved, lastCall >>

\* wrapper, lines 112-124: put the entry on the queue and return the 202
IntakePut(i) ==
    /\ ipc[i] = "logged"
    /\ queue' = Put(queue, ient[i])
    /\ accepted' = accepted \cup { ient[i].job_id }
    /\ ient' = [ ient EXCEPT ![i] = NoEntry ]
    /\ ipc' = [ ipc EXCEPT ![i] = "idle" ]
    /\ UNCHANGED << now, pool, nextId, store, wpc, went, wtime, wres, submitted, completed,
                    execs, outcome, waited, ran, lastPoll, probe, answer, executor,
                    locator, rejected, env, disk, saved, lastCall >>

(* ----------------------------- worker loop ---------------------------- *)
\* steps 1 and 2: dequeue the oldest entry, queue_time = now - enqueue_time,
\* write running with this worker's identity
WorkerDequeue(w) ==
    /\ w \in pool
    /\ wpc[w] = "idle"
    /\ queue # << >>
    /\ LET entry == Head(queue)
       IN  /\ went' = [ went EXCEPT ![w] = entry ]
           /\ wtime' = [ wtime EXCEPT ![w] = [ queue_time |-> now - entry.start_time,
                                                run_start |-> now ] ]
           /\ waited' = [ waited EXCEPT ![entry.job_id] = now - entry.start_time ]
           /\ executor' = [ executor EXCEPT ![entry.job_id] = w ]
           /\ store' = LogJobStatus(store, entry.job_id,
                                    JobRecord("running", entry.job_id, WorkerPid[w], Null))
    /\ queue' = Tail(queue)
    /\ wpc' = [ wpc EXCEPT ![w] = "invoke" ]
    /\ UNCHANGED << now, pool, nextId, ipc, ient, wres, accepted, submitted, completed,
                    execs, outcome, ran, lastPoll, probe, answer,
                    locator, rejected, env, disk, saved, lastCall >>

(* ---------------------------- task_wrapper ---------------------------- *)
\* lines 60-70: write running with the pid captured at intake, enter f
TaskBegin(w) ==
    /\ wpc[w] = "invoke"
    /\ store' = LogJobStatus(store, went[w].job_id,
                             JobRecord("running", went[w].job_id, went[w].pid, Null))
    /\ execs' = [ execs EXCEPT ![went[w].job_id] = @ + 1 ]
    /\ wpc' = [ wpc EXCEPT ![w] = "in_f" ]
    /\ UNCHANGED << now, pool, nextId, queue, ipc, ient, went, wtime, wres, accepted, submitted,
                    completed, outcome, waited, ran, lastPoll, probe, answer, executor,
                    locator, rejected, env, disk, saved, lastCall >>

\* faulty variant: the except branch writes the status literal of the intake
TaskRecordRequeue(entry, res, run_time) ==
    IF res.raised
    THEN JobRecord("queued", entry.job_id, entry.pid, Null)
    ELSE JobRecord("done", entry.job_id, entry.pid, ResponseData(res, run_time))

\* what task_wrapper writes once f is over: done with response_data when f
\* returned (lines 71-97), error with str(e) when it raised (lines 101-109)
TaskRecord(entry, res, run_time) ==
    IF res.raised
    THEN JobRecord("error", entry.job_id, entry.pid, << [ EmptyDict EXCEPT !.error = res.text ] >>)
    ELSE JobRecord("done", entry.job_id, entry.pid, ResponseData(res, run_time))

\* lines 70-110: f is over; run_time = time.time() - start_time; the record
\* is written; the response is returned or the exception raised again
TaskEnd(w, o) ==
    /\ wpc[w] = "in_f"
    /\ LET entry == went[w]
           res == ImageToVideo(entry.job_id, o, now)
           upload == SaveFileLocally(env, disk, OutputFile(entry.job_id), now)
       IN  /\ wres' = [ wres EXCEPT ![w] = [ res |-> res, run_time |-> now - entry.start_time,
                                              loop_time |-> now - wtime[w].run_start ] ]
           /\ store' = LogJobStatus(store, entry.job_id,
                                    TaskRecord(entry, res, now - entry.start_time))
           /\ completed' = Finish(store, entry.job_id)
           /\ outcome' = [ outcome EXCEPT ![entry.job_id] = o ]
           /\ ran' = [ ran EXCEPT ![entry.job_id] = now - wtime[w].run_start ]
           \* upload_file inside f: the artifact is stored when both steps succeed
           /\ disk' = IF o = "ok" THEN upload.disk ELSE disk
           /\ saved' = IF o = "ok" THEN Append(saved, upload.path) ELSE saved
           /\ locator' = IF o = "ok"
                         THEN [ locator EXCEPT ![entry.job_id] =
                                    UploadFile(OutputFile(entry.job_id), now) ]
                         ELSE locator
    /\ wpc' = [ wpc EXCEPT ![w] = IF o = "raise" THEN "task_raised" ELSE "task_ok" ]
    /\ UNCHANGED << now, pool, nextId, queue, ipc, ient, went, wtime, accepted, submitted,
                    execs, waited, lastPoll, probe, answer, executor,
                    rejected, env, lastCall >>

(* ---------------------- worker loop, after the task ------------------- *)
\* step 4: the task's result with the timestamps filled in
WorkerResponse(res, queue_time, run_time) ==
    << [ EmptyDict EXCEPT
           !.code = res.code,
           !.resp = IF res.code = 200 THEN "dict" ELSE "null",
           !.message = IF res.code = 200 THEN "success" ELSE res.text,
           !.run_time = run_time,
           !.queue_time = queue_time,
           !.total_time = queue_time + run_time ] >>
    \o (IF res.code = 200 THEN res.body ELSE Null)

\* faulty variant: the failure escapes the loop and ends it
AfterFailureEscapes == "crashed"

\* step 5: the failure is swallowed, the loop goes on to the next entry
AfterFailure == "idle"

\* steps 4 and 7: the task returned
WorkerLogDone(w) ==
    /\ wpc[w] = "task_ok"
    /\ store' = LogJobStatus(store, went[w].job_id,
                             JobRecord("done", went[w].job_id, WorkerPid[w],
                                       WorkerResponse(wres[w].res, wtime[w].queue_time,
                                                      wres[w].loop_time)))
    /\ completed' = Finish(store, went[w].job_id)
    /\ wpc' = [ wpc EXCEPT ![w] = "idle" ]
    /\ went' = [ went EXCEPT ![w] = NoEntry ]
    /\ wres' = [ wres EXCEPT ![w] = NoResult ]
    /\ wtime' = [ wtime EXCEPT ![w] = NoTime ]
    /\ UNCHANGED << now, pool, nextId, queue, ipc, ient, accepted, submitted, execs,
                    outcome, waited, ran, lastPoll, probe, answer, executor,
                    locator, rejected, env, disk, saved, lastCall >>

\* steps 5 and 7: the task raised
WorkerLogError(w) ==
    /\ wpc[w] = "task_raised"
    /\ store' = LogJobStatus(store, went[w].job_id,
                             JobRecord("error", went[w].job_id, WorkerPid[w],
                                       << [ EmptyDict EXCEPT !.kind = "str",
                                                             !.text = wres[w].res.text ] >>))
    /\ completed' = Finish(store, went[w].job_id)
    /\ wpc' = [ wpc EXCEPT ![w] = AfterFailure ]
    /\ went' = [ went EXCEPT ![w] = NoEntry ]
    /\ wres' = [ wres EXCEPT ![w] = NoResult ]
    /\ wtime' = [ wtime EXCEPT ![w] = NoTime ]
    /\ UNCHANGED << now, pool, nextId, queue, ipc, ient, accepted, submitted, execs,
                    outcome, waited, ran, lastPoll, probe, answer, executor,
                    locator, rejected, env, disk, saved, lastCall >>

(* --------------------------- clock and polls -------------------------- *)
Tick ==
    /\ now < MaxTime
    /\ now' = now + 1
    /\ UNCHANGED << pool, nextId, store, queue, ipc, ient, wpc, went, wtime, wres, accepted,
                    submitted, completed, execs, outcome, waited, ran, lastPoll, probe, answer, executor,
                    locator, rejected, env, disk, saved, lastCall >>

\* a caller asks for the status of some id, known to the store or not
Poll(id) ==
    /\ lastPoll' = [ id |-> id, existed |-> Exists(store, id),
                     code |-> GetJobStatus(store, id).code,
                     error |-> GetJobStatus(store, id).error ]
    /\ UNCHANGED << now, pool, nextId, store, queue, ipc, ient, wpc, went, wtime, wres,
                    accepted, submitted, completed, execs, outcome, waited, ran, probe, answer, executor,
                    locator, rejected, env, disk, saved, lastCall >>

(* --------------------------- the job system --------------------------- *)
InitSystem ==
    /\ now = 0
    /\ pool \in { { "w1" }, Workers }
    /\ nextId = 1
    /\ store = [ j \in JobIds |-> NoRecord ]
    /\ queue = << >>
    /\ ipc = [ i \in Intakes |-> "idle" ]
    /\ ient = [ i \in Intakes |-> NoEntry ]
    /\ wpc = [ w \in Workers |-> "idle" ]
    /\ went = [ w \in Workers |-> NoEntry ]
    /\ wtime = [ w \in Workers |-> NoTime ]
    /\ wres = [ w \in Workers |-> NoResult ]
    /\ accepted = { }
    /\ submitted = << >>
    /\ completed = << >>
    /\ execs = [ j \in JobIds |-> 0 ]
    /\ outcome = [ j \in JobIds |-> NoKey ]
    /\ waited = [ j \in JobIds |-> NoInt ]
    /\ ran = [ j \in JobIds |-> NoInt ]
    /\ executor = [ j \in JobIds |-> NoKey ]
    /\ lastPoll = NoPoll
    /\ locator = [ j \in JobIds |-> NoSeq ]
    /\ rejected = { }
    /\ disk = { }
    /\ saved = << >>
    /\ lastCall = NoCall

NoAnswer == Document(NoInt, NoRecord)

Init ==
    /\ InitSystem
    /\ env = DeployedEnv
    /\ probe = NoRecord
    /\ answer = NoAnswer

Next ==
    \/ \E i \in Intakes : IntakeAccept(i)
    \/ \E i \in Intakes : IntakeReject(i)
    \/ \E i \in Intakes : IntakePut(i)
    \/ \E w \in Workers : WorkerDequeue(w)
    \/ \E w \in Workers : TaskBegin(w)
    \/ \E w \in Workers, o \in Outcomes : TaskEnd(w, o)
    \/ \E w \in Workers : WorkerLogDone(w)
    \/ \E w \in Workers : WorkerLogError(w)

Spec == Init /\ [][Next]_vars

\* the same system with callers that ask for the status of jobs
NextPolled == Next \/ \E id \in ProbeIds : Poll(id)

SpecPolled == Init /\ [][NextPolled]_vars

\* the same system with the clock running
NextTimed == Next \/ Tick

SpecTimed == Init /\ [][NextTimed]_vars

(* ----------------------- fairness of the workers ---------------------- *)
\* a started worker loop keeps running, and a task that was called ends
Fairness ==
    /\ \A i \in Intakes : WF_vars(IntakePut(i))
    /\ \A w \in Workers :
         /\ WF_vars(WorkerDequeue(w))
         /\ WF_vars(TaskBegin(w))
         /\ WF_vars(\E o \in Outcomes : TaskEnd(w, o))
         /\ WF_vars(WorkerLogDone(w))
         /\ WF_vars(WorkerLogError(w))

SpecLive == Init /\ [][Next]_vars /\ Fairness

(* ------------------- the status query on its own ---------------------- *)
\* the file name a dictionary at depth k of the probe would hold
ProbeFile(k) == << "out" \o ToString(k), ".mp4" >>

StaleUrl == << "http://elsewhere", "/", "old.mp4" >>

Levels(k, last) ==
    { [ EmptyDict EXCEPT !.filename = f, !.resp = r, !.download_url = u ] :
        f \in { NoSeq, ProbeFile(k) },
        r \in (IF last THEN { "absent", "null", "str" } ELSE { "dict" }),
        u \in (IF last THEN { NoSeq, StaleUrl } ELSE { NoSeq }) }

RECURSIVE ChainsFrom(_, _)
ChainsFrom(k, n) ==
    IF k = n
    THEN { << l >> : l \in Levels(k, TRUE) }
    ELSE { << l >> \o c : l \in Levels(k, FALSE), c \in ChainsFrom(k + 1, n) }

ProbeResponses == { Null } \cup UNION { ChainsFrom(1, n) : n \in 1 .. MaxDepth }

ProbeRecords == { JobRecord(status, 1, 1, r) : status \in Statuses, r \in ProbeResponses }

InitQuery ==
    /\ InitSystem
    /\ env = DeployedEnv
    /\ probe \in ProbeRecords
    /\ answer = NoAnswer

\* the store holds the probe as the record of job 1 and nothing for job 2
Query(id) ==
    /\ answer' = GetJobStatus([ j \in { 1 } |-> probe ], id)
    /\ UNCHANGED << now, pool, nextId, store, queue, ipc, ient, wpc, went, wtime, wres,
                    accepted, submitted, completed, execs, outcome, waited, ran, executor,
                    lastPoll, probe,
                    locator, rejected, env, disk, saved, lastCall >>

NextQuery == \E id \in { 1, 2 } : Query(id)

SpecQuery == InitQuery /\ [][NextQuery]_vars


(* ----------------------- the storage on its own ----------------------- *)
MaxSaves == 2

\* source files handed to save_file_locally
Files == { << "a", ".mp4" >>, << "b", ".mp4" >> }

\* file names a caller may ask download_file for
Names == Files \cup { f.name : f \in disk }

InitStorage ==
    /\ InitSystem
    /\ env \in Envs
    /\ probe = NoRecord
    /\ answer = NoAnswer

\* the environment or the mount changes between two calls (lastCall is
\* cleared: it describes a call made in the current environment)
SetEnv(e) ==
    /\ e # env
    /\ env' = e
    /\ lastCall' = NoCall
    /\ UNCHANGED << now, pool, nextId, store, queue, ipc, ient, wpc, went, wtime, wres,
                    accepted, submitted, completed, execs, outcome, waited, ran, executor,
                    lastPoll, locator, rejected, disk, saved, probe, answer >>

\* a second goes by
SecondPasses ==
    /\ now < MaxTime * MsPerSecond
    /\ now' = now + MsPerSecond
    /\ UNCHANGED << pool, nextId, store, queue, ipc, ient, wpc, went, wtime, wres,
                    accepted, submitted, completed, execs, outcome, waited, ran, executor,
                    lastPoll, locator, rejected, env, disk, saved, lastCall, probe, answer >>

\* save_file_locally(file_path)
Save(file) ==
    /\ Len(saved) < MaxSaves
    /\ LET r == SaveFileLocally(env, disk, file, now)
       IN  /\ disk' = r.disk
           /\ saved' = Append(saved, r.path)
           /\ lastCall' = [ op |-> "save", root |-> r.path.dir, code |-> 200 ]
    /\ UNCHANGED << now, pool, nextId, store, queue, ipc, ient, wpc, went, wtime, wres,
                    accepted, submitted, completed, execs, outcome, waited, ran, executor,
                    lastPoll, locator, rejected, env, probe, answer >>

\* GET /v1/storage/download/<filename>
Download(filename) ==
    /\ LET r == DownloadFile(env, disk, filename)
       IN  lastCall' = [ op |-> "download", root |-> r.root, code |-> r.code ]
    /\ UNCHANGED << now, pool, nextId, store, queue, ipc, ient, wpc, went, wtime, wres,
                    accepted, submitted, completed, execs, outcome, waited, ran, executor,
                    lastPoll, locator, rejected, env, disk, saved, probe, answer >>

\* GET /v1/storage/list
List ==
    /\ lastCall' = [ op |-> "list", root |-> ListFiles(env, disk).storage_path, code |-> 200 ]
    /\ UNCHANGED << now, pool, nextId, store, queue, ipc, ient, wpc, went, wtime, wres,
                    accepted, submitted, completed, execs, outcome, waited, ran, executor,
                    lastPoll, locator, rejected, env, disk, saved, probe, answer >>

NextStorage ==
    \/ \E e \in Envs : SetEnv(e)
    \/ \E file \in Files : Save(file)
    \/ \E filename \in Names : Download(filename)
    \/ List

SpecStorage == InitStorage /\ [][NextStorage]_vars

\* the storage operations with the wall clock of datetime.now()
NextStorageTimed == NextStorage \/ SecondPasses

SpecStorageTimed == InitStorage /\ [][NextStorageTimed]_vars


(* ============================== claims ================================ *)
Status(j) == store[j].job_status

Rank(status) ==
    CASE status = "queued" -> 1
      [] status = "running" -> 2
      [] status \in Terminal -> 3
      [] OTHER -> 0

\* one write of a record, from status a to status b, keeps the order
\* queued, running, {done | error}
InOrder(a, b) ==
    /\ Rank(b) >= Rank(a)
    /\ a \in Terminal => b = a
    /\ b \in Terminal => a \in { "running", b }

\* C1: every write to a job's record keeps the order queued, running, then
\* one of done or error: no write goes back to an earlier status, none goes
\* from one terminal status to the other, and none writes done or error on a
\* record that was not running.
C1_StatusOrder == [][\A j \in JobIds : InOrder(Status(j), Status(j)')]_vars

\* C1 witness: two jobs went through the whole sequence, one to done and one
\* to error
C1_Witness ==
    /\ Len(completed) = 2
    /\ \E j, k \in JobIds : Status(j) = "done" /\ Status(k) = "error"

\* C2: in every record of the store, response is null exactly when the
\* status is queued or running, and not null exactly when it is done or error.
C2_ResponseIffTerminal ==
    \A j \in JobIds :
        Exists(store, j) =>
            /\ (store[j].response = Null) <=> (Status(j) \in { "queued", "running" })
            /\ (store[j].response # Null) <=> (Status(j) \in Terminal)

\* C2 witness: one record without response (running) beside one with (done)
C2_Witness ==
    \E j, k \in JobIds :
        /\ Status(j) = "running" /\ store[j].response = Null
        /\ Status(k) = "done" /\ store[k].response # Null

\* the failure description is held by the response of the record
HoldsFailure(response, text) ==
    /\ response # Null
    /\ \/ response[1].error = text
       \/ response[1].kind = "str" /\ response[1].text = text

\* C3: a job whose processing step or store step failed has a terminal
\* record with status error and the failure description as response, and is
\* never recorded as done.
C3_FailureIsError ==
    \A j \in JobIds :
        (outcome[j] \in { "process_fail", "store_fail" } /\ Status(j) \in Terminal) =>
            /\ Status(j) = "error"
            /\ HoldsFailure(store[j].response, FailureText(outcome[j]))

Holders(j) == { w \in Workers : went[w].job_id = j }
Queued(j) == { k \in 1 .. Len(queue) : queue[k].job_id = j }
Building(j) == { i \in Intakes : ient[i].job_id = j }

\* C4: every submit makes one queue entry with a job id of its own; a job is
\* held by at most one worker, its task is entered at most once, and at any
\* time at most one thread (the intake before the put, or the one worker
\* after the get) is the writer of its record.
C4_OneEntryOneWorker ==
    /\ \A a, b \in 1 .. Len(submitted) :
           submitted[a].job_id = submitted[b].job_id => a = b
    /\ \A j \in JobIds :
           /\ Cardinality(Queued(j)) + Cardinality(Holders(j)) <= 1
           /\ Cardinality(Building(j)) + Cardinality(Holders(j)) <= 1
           /\ (j \in accepted /\ Status(j) = "queued") => Cardinality(Queued(j)) = 1
           /\ execs[j] <= 1

\* C4 witness: two requests were accepted and two workers run one job each
C4_Witness ==
    /\ Len(submitted) = 2
    /\ wpc["w1"] = "in_f" /\ wpc["w2"] = "in_f"
    /\ went["w1"].job_id # went["w2"].job_id

IsPrefix(a, b) == Len(a) <= Len(b) /\ a = SubSeq(b, 1, Len(a))

SubmittedIds == [ k \in 1 .. Len(submitted) |-> submitted[k].job_id ]

SingleIntake == \A a, b \in 1 .. Len(submitted) : submitted[a].intake = submitted[b].intake

\* C5: with one worker and all jobs submitted through one intake path, jobs
\* reach their terminal status in the order they were submitted.
C5_FifoSingleWorker ==
    (Cardinality(pool) = 1 /\ SingleIntake) => IsPrefix(completed, SubmittedIds)

\* C5 witness: one worker completed two jobs of one intake path
C5_Witness ==
    /\ Cardinality(pool) = 1
    /\ SingleIntake
    /\ Len(completed) = 2

WorkerPcs == { "idle", "invoke", "in_f", "task_ok", "task_raised" }

\* C6: a task that raises does not end the worker loop: every worker stays
\* in its loop, and every accepted job (also one queued behind a job that
\* raised) gets a terminal record.
C6_FailureIsolation ==
    /\ [](\A w \in Workers : wpc[w] \in WorkerPcs)
    /\ \A j \in JobIds : (j \in accepted) ~> (Status(j) \in Terminal)

\* C6 witness: the only worker wrote error for a job that raised and then
\* completed the job behind it
C6_Witness ==
    /\ pool = { "w1" }
    /\ Len(completed) = 2
    /\ outcome[completed[1]] = "raise" /\ Status(completed[1]) = "error"
    /\ Status(completed[2]) = "done"
    /\ wpc["w1"] = "idle"

\* C7: a status query for an id without a record answers 404 with the error
\* "Job not found", whatever the other records are.
C7_UnknownJobNotFound ==
    (lastPoll # NoPoll /\ ~lastPoll.existed) =>
        lastPoll.code = 404 /\ lastPoll.error = "Job not found"

\* C7 witness: an id without a record was queried while another job was
\* running
C7_Witness ==
    /\ lastPoll # NoPoll /\ ~lastPoll.existed /\ lastPoll.code = 404
    /\ \E j \in JobIds : Status(j) = "running"

EndsWith(s, tail) ==
    /\ Len(s) >= Len(tail)
    /\ SubSeq(s, Len(s) - Len(tail) + 1, Len(s)) = tail

\* the file name the search of the claim finds: the one at the top level of
\* response, else the one of the innermost dictionary
ClaimedFilename(response) ==
    IF response[1].filename # NoSeq THEN response[1].filename
    ELSE response[Len(response)].filename

\* C8: for a done record with a response, the answer is a success; when the
\* top level of response, or else the innermost nested response, holds a
\* filename, the answer has that filename and a download_url ending in
\* "/<filename>" at its top level; otherwise it has neither.
C8_FilenameDiscovery ==
    (answer # NoAnswer /\ answer.job_id = 1 /\ probe.job_status = "done"
       /\ probe.response # Null) =>
        /\ answer.code = 200
        /\ LET found == ClaimedFilename(probe.response)
           IN  IF found # NoSeq
               THEN /\ answer.filename = found
                    /\ EndsWith(answer.download_url, << "/" >> \o found)
               ELSE /\ answer.filename = NoSeq
                    /\ answer.download_url = NoSeq

\* C8 witness: a filename three levels deep was found
C8_Witness ==
    /\ answer # NoAnswer /\ probe.job_status = "done"
    /\ Len(probe.response) = 3
    /\ probe.response[1].filename = NoSeq /\ probe.response[2].filename = NoSeq
    /\ answer.filename = ProbeFile(3)

\* C9: the queue_time of a done record is the time between intake and
\* dequeue, and its run_time is the duration of the task alone.
C9_TimesSeparate ==
    \A j \in JobIds :
        Status(j) = "done" =>
            /\ store[j].response[1].queue_time = waited[j]
            /\ store[j].response[1].run_time = ran[j]

\* C10: a queued record has no process_id; a running, done or error record
\* has the identity of the worker that executed the job.
C10_ProcessIdOfWorker ==
    \A j \in JobIds :
        /\ Status(j) = "queued" => store[j].process_id = NoInt
        /\ Status(j) \in { "running", "done", "error" } =>
               store[j].process_id = WorkerPid[executor[j]]

\* the storage root the fixed order names: the configured location if set
\* and non-empty, else the mount if present and writable, else the
\* application-local path
ClaimedRoot(e) ==
    IF e.save_location \notin { NoKey, "" }
    THEN e.save_location
    ELSE IF e.docker_exists /\ e.docker_writable THEN "/var/www/html/storage/app"
         ELSE "/app/storage"

\* C11: in every environment save_file_locally, download_file and list_files
\* resolve the same storage root, by the fixed order SAVE_LOCATION if set
\* and non-empty, else the mount if it exists and is writable, else
\* /app/storage; the root is resolved anew by every call, so the call that
\* follows a change of environment uses the root of the new environment
C11_SameRootEveryCall ==
    /\ \A e \in Envs :
          /\ SaveFileLocally(e, disk, << "a", ".mp4" >>, now).path.dir = ClaimedRoot(e)
          /\ \A filename \in Names : DownloadFile(e, disk, filename).root = ClaimedRoot(e)
          /\ ListFiles(e, disk).storage_path = ClaimedRoot(e)
    /\ lastCall # NoCall => lastCall.root = ClaimedRoot(env)

\* a file was saved under one root, the environment changed to an empty
\* SAVE_LOCATION without the mount, and the download that followed looked
\* under /app/storage
C11_Witness ==
    /\ Len(saved) > 0
    /\ saved[1].dir = "/data"
    /\ env.save_location = ""
    /\ ~env.docker_exists
    /\ lastCall.op = "download"
    /\ lastCall.root = "/app/storage"
    /\ lastCall.code = 404

\* C12: any two calls of save_file_locally produce distinct destination
\* paths, so that no save overwrites the artifact another save stored
C12_UniqueDestinations ==
    \A a, b \in 1..Len(saved) : a # b => saved[a] # saved[b]

\* the <path:filename> part of a download URL, as the download route takes it
RequestedFile(url) == SubSeq(url, 4, Len(url))

\* the jobs image_to_video completed successfully and whose record says so
Succeeded == { j \in JobIds : /\ locator[j] # NoSeq
                              /\ Exists(store, j)
                              /\ store[j].job_status = "done" }

\* C13: for a job image_to_video completed successfully, the download_url
\* get_job_status returns, at the top level and inside the nested response,
\* is the locator upload_file returned for the job, and download_file called
\* with the file name of that URL finds the stored artifact
C13_UrlNamesStoredFile ==
    \A j \in Succeeded :
        LET a == GetJobStatus(store, j)
        IN  /\ a.download_url = locator[j]
            /\ a.response[Len(a.response)].download_url = locator[j]
            /\ DownloadFile(env, disk, RequestedFile(a.download_url)).code = 200

\* the jobs that have an entry in the queue or in the hands of a worker
Enqueued == { j \in JobIds : Queued(j) # {} \/ Holders(j) # {} }

\* C14: the queued record is written before the entry is put and before the
\* 202 is returned: a job whose entry is in the queue or being executed has
\* a record, get_job_status never answers not-found for an accepted job_id,
\* and a job whose queued write failed has no entry and no acceptance
C14_RecordBeforeEntry ==
    /\ \A j \in Enqueued : Exists(store, j)
    /\ \A j \in accepted : GetJobStatus(store, j).code # 404
    /\ \A j \in rejected : /\ j \notin Enqueued
                           /\ Building(j) = {}
                           /\ j \notin accepted

\* C14 witness: the write of one job failed, and a later job waits in the
\* queue, accepted, with its queued record
C14_Witness ==
    /\ 1 \in rejected
    /\ 2 \in accepted
    /\ Queued(2) # {}
    /\ GetJobStatus(store, 2).job_status = "queued"
====
